---- MODULE Spec2Model ----
(***************************************************************************)
(* A model of the two core components of ai-review:                        *)
(*   - RetryTransport.handle_async_request                                 *)
(*       (src/ai_review/libs/http/transports/retry.py)                     *)
(*   - PromptService.split_prompt and its helpers                          *)
(*       (src/ai_review/services/prompt/service.py), with count_tokens     *)
(*       (src/ai_review/libs/llm/tokenizer.py)                             *)
(* Spec is the retry transport, with several calls interleaved at their    *)
(* await points.  SpecSplit is the prompt chunker.                         *)
(***************************************************************************)
EXTENDS Integers, Sequences, FiniteSets, TLC

(***************************************************************************)
(* Bounds of the model.                                                    *)
(***************************************************************************)
\* the largest max_retries a RetryTransport instance is constructed with
MaxRetriesBound == 2

\* the handle_async_request calls that may run concurrently on one instance
Calls == {"c1", "c2"}

None == [kind |-> "none"]

(***************************************************************************)
(* RetryTransport: configuration (retry.py, __init__).                     *)
(***************************************************************************)
\* retry_status_codes: BAD_GATEWAY, GATEWAY_TIMEOUT, SERVICE_UNAVAILABLE,
\* INTERNAL_SERVER_ERROR
retry_status_codes == {502, 504, 503, 500}

\* retry_exceptions
retry_exceptions == {"ReadTimeout", "ConnectTimeout", "NetworkError"}

\* the status codes the underlying transport answers with in the model
Statuses == {200, 404, 503}

\* the exception classes the underlying transport raises in the model
TransportExceptions ==
    {"ReadTimeout", "ConnectTimeout", "NetworkError", "ConnectError", "WriteTimeout"}

\* the classes an exception of class t is an instance of (httpx and asyncio
\* class hierarchy, as far as isinstance / except look at it)
Bases(t) ==
    CASE t = "ReadTimeout"    -> {"ReadTimeout", "TimeoutException", "Exception", "BaseException"}
      [] t = "ConnectTimeout" -> {"ConnectTimeout", "TimeoutException", "Exception", "BaseException"}
      [] t = "WriteTimeout"   -> {"WriteTimeout", "TimeoutException", "Exception", "BaseException"}
      [] t = "NetworkError"   -> {"NetworkError", "Exception", "BaseException"}
      [] t = "ConnectError"   -> {"ConnectError", "NetworkError", "Exception", "BaseException"}
      [] t = "Exception"      -> {"Exception", "BaseException"}
      [] t = "CancelledError" -> {"CancelledError", "BaseException"}

\* a response object of the underlying transport; id tells objects apart
Response(c, n, s) == [kind |-> "response", status |-> s, id |-> <<c, n>>]

\* an exception object
Exc(c, n, t) == [kind |-> "exception", type |-> t, id |-> <<c, n>>]

VARIABLES
    max_retries,    \* self.max_retries
    pc,             \* per call: where the coroutine is
    attempt,        \* per call: the loop variable of the for statement
    last_response,  \* per call: the local last_response
    outcomes,       \* per call: what the underlying transport gave, in order
    invocations,    \* per call: how often self.transport was invoked
    sleeps,         \* per call: how often asyncio.sleep was awaited
    log,            \* logging sink: per request, the records in order
    result          \* per call: how the call ended

retryVars ==
    <<max_retries, pc, attempt, last_response, outcomes, invocations, sleeps, log, result>>

\* variant: every error status is retried
IsRetryStatusAny(s) == s >= 400
\* line 42: `last_response.status_code not in self.retry_status_codes`, negated
IsRetryStatus(s) == s \in retry_status_codes

\* variant: the class itself is looked up, subclasses are missed
IsRetryExceptionExact(e) == e.type \in retry_exceptions
\* variant: every caught exception is retried
IsRetryExceptionAll(e) == TRUE
\* line 51: isinstance(e, self.retry_exceptions)
IsRetryException(e) == Bases(e.type) \cap retry_exceptions # {}

\* variant: `except BaseException as e`
CaughtByExceptBase(e) == "BaseException" \in Bases(e.type)
\* line 50: `except Exception as e`
CaughtByExcept(e) == "Exception" \in Bases(e.type)

\* variant: one attempt too many
InRangeInclusive(a) == a <= max_retries
\* line 39: `range(self.max_retries)`: is index a produced by the for statement
InRange(a) == a < max_retries

\* variant: the for statement produces the same index again
NextAttemptSame(c) == attempt[c]
\* variant: the attempt counter is shared by the calls of the instance
NextAttemptShared(c) ==
    (CHOOSE m \in {attempt[d] : d \in Calls} : \A d \in Calls : attempt[d] <= m) + 1
\* line 39: the index the for statement of call c produces next
NextAttempt(c) == attempt[c] + 1

\* variant: an attempt that raises forgets the earlier response
KeptLastResponseReset(c) == None
\* last_response of call c after the awaited attempt raised: line 41 did not assign
KeptLastResponse(c) == last_response[c]

\* variant: the last underlying exception is raised again
ExhaustedExceptionLast(c) ==
    IF outcomes[c] # <<>> /\ outcomes[c][Len(outcomes[c])].kind = "exception"
    THEN outcomes[c][Len(outcomes[c])]
    ELSE Exc(c, 0, "Exception")
\* the exception of line 69
ExhaustedException(c) == Exc(c, 0, "Exception")

\* a log record
Warning(a) == [level |-> "warning", attempt |-> a]
ErrorRecord == [level |-> "error", attempt |-> 0]

\* variant: the error record is written on both branches
ExhaustedLogAlways(lr) == <<ErrorRecord>>
\* the records line 62-69 add to the sink, for last_response lr
ExhaustedLog(lr) == IF lr # None THEN <<ErrorRecord>> ELSE <<>>

\* lines 62-69: the code after the loop, with last_response lr and log lg
AfterLoop(c, lr, lg) ==
    /\ log' = [log EXCEPT ![c] = lg \o ExhaustedLog(lr)]
    /\ IF lr # None
       THEN /\ pc' = [pc EXCEPT ![c] = "returned"]
            /\ result' = [result EXCEPT ![c] = [kind |-> "return", value |-> lr]]
       ELSE /\ pc' = [pc EXCEPT ![c] = "raised"]
            /\ result' = [result EXCEPT ![c] = [kind |-> "raise", value |-> ExhaustedException(c)]]
    /\ UNCHANGED <<attempt, invocations>>

\* line 39-41: the for statement produces index a, or ends the loop
LoopHead(c, a, lr, lg) ==
    IF InRange(a)
    THEN /\ pc' = [pc EXCEPT ![c] = "attempting"]
         /\ attempt' = [attempt EXCEPT ![c] = a]
         /\ invocations' = [invocations EXCEPT ![c] = @ + 1]
         /\ log' = [log EXCEPT ![c] = lg]
         /\ UNCHANGED result
    ELSE AfterLoop(c, lr, lg)

\* line 37-41: the call starts and runs to its first await
Call(c) ==
    /\ pc[c] = "idle"
    /\ last_response' = [last_response EXCEPT ![c] = None]
    /\ LoopHead(c, 0, None, log[c])
    /\ UNCHANGED <<max_retries, outcomes, sleeps>>

\* line 60: await asyncio.sleep(self.retry_delay)
StartSleep(c) ==
    /\ pc' = [pc EXCEPT ![c] = "sleeping"]
    /\ sleeps' = [sleeps EXCEPT ![c] = @ + 1]

\* line 41-49, 60: the awaited attempt returns a response with status s
AttemptReturns(c, s) ==
    /\ pc[c] = "attempting"
    /\ LET r == Response(c, Len(outcomes[c]) + 1, s) IN
       /\ outcomes' = [outcomes EXCEPT ![c] = Append(@, r)]
       /\ last_response' = [last_response EXCEPT ![c] = r]
       /\ IF ~IsRetryStatus(r.status)
          THEN /\ pc' = [pc EXCEPT ![c] = "returned"]
               /\ result' = [result EXCEPT ![c] = [kind |-> "return", value |-> r]]
               /\ UNCHANGED <<log, sleeps>>
          ELSE /\ log' = [log EXCEPT ![c] = Append(@, Warning(attempt[c] + 1))]
               /\ StartSleep(c)
               /\ UNCHANGED result
    /\ UNCHANGED <<max_retries, attempt, invocations>>

\* line 50-60: exception e comes out of the await of line 41
OnException(c, e) ==
    /\ last_response' = [last_response EXCEPT ![c] = KeptLastResponse(c)]
    /\ IF CaughtByExcept(e)
       THEN IF IsRetryException(e)
            THEN /\ log' = [log EXCEPT ![c] = Append(@, Warning(attempt[c] + 1))]
                 /\ StartSleep(c)
                 /\ UNCHANGED result
            ELSE /\ pc' = [pc EXCEPT ![c] = "failed"]
                 /\ result' = [result EXCEPT ![c] = [kind |-> "raise", value |-> e]]
                 /\ UNCHANGED <<log, sleeps>>
       ELSE /\ pc' = [pc EXCEPT ![c] = "aborted"]
            /\ result' = [result EXCEPT ![c] = [kind |-> "raise", value |-> e]]
            /\ UNCHANGED <<log, sleeps>>

\* line 41, 50-60: the awaited attempt raises an exception of class t
AttemptRaises(c, t) ==
    /\ pc[c] = "attempting"
    /\ LET e == Exc(c, Len(outcomes[c]) + 1, t) IN
       /\ outcomes' = [outcomes EXCEPT ![c] = Append(@, e)]
       /\ OnException(c, e)
    /\ UNCHANGED <<max_retries, attempt, invocations>>

\* line 60, 39: the sleep is over, the for statement goes on
SleepDone(c) ==
    /\ pc[c] = "sleeping"
    /\ LoopHead(c, NextAttempt(c), last_response[c], log[c])
    /\ UNCHANGED <<max_retries, last_response, outcomes, sleeps>>

\* the task running call c is cancelled: asyncio raises CancelledError at the
\* await the coroutine is suspended in (line 41, inside the try, or line 60)
Cancel(c) ==
    /\ pc[c] \in {"attempting", "sleeping"}
    /\ LET e == Exc(c, 0, "CancelledError") IN
       IF pc[c] = "attempting"
       THEN OnException(c, e)
       ELSE /\ pc' = [pc EXCEPT ![c] = "aborted"]
            /\ result' = [result EXCEPT ![c] = [kind |-> "raise", value |-> e]]
            /\ UNCHANGED <<last_response, log, sleeps>>
    /\ UNCHANGED <<max_retries, attempt, invocations, outcomes>>

RetryInit ==
    /\ max_retries \in 0..MaxRetriesBound
    /\ pc = [c \in Calls |-> "idle"]
    /\ attempt = [c \in Calls |-> 0]
    /\ last_response = [c \in Calls |-> None]
    /\ outcomes = [c \in Calls |-> <<>>]
    /\ invocations = [c \in Calls |-> 0]
    /\ sleeps = [c \in Calls |-> 0]
    /\ log = [c \in Calls |-> <<>>]
    /\ result = [c \in Calls |-> None]

\* no call has been made on the instance
RetryParked ==
    /\ max_retries = MaxRetriesBound
    /\ pc = [c \in Calls |-> "idle"]
    /\ attempt = [c \in Calls |-> 0]
    /\ last_response = [c \in Calls |-> None]
    /\ outcomes = [c \in Calls |-> <<>>]
    /\ invocations = [c \in Calls |-> 0]
    /\ sleeps = [c \in Calls |-> 0]
    /\ log = [c \in Calls |-> <<>>]
    /\ result = [c \in Calls |-> None]

(***************************************************************************)
(* Text: a string is a sequence of characters.                             *)
(***************************************************************************)
NL == "\n"

\* "# File:"
FileHeader == <<"#", " ", "F", "i", "l", "e", ":">>

\* str.startswith
StartsWith(text, prefix) ==
    /\ Len(text) >= Len(prefix)
    /\ SubSeq(text, 1, Len(prefix)) = prefix

\* the index of the first newline of text, 0 when there is none
RECURSIVE FirstNL(_, _)
FirstNL(text, k) ==
    IF k > Len(text) THEN 0
    ELSE IF text[k] = NL THEN k
    ELSE FirstNL(text, k + 1)

\* text.split("\n")
RECURSIVE SplitLines(_)
SplitLines(text) ==
    LET k == FirstNL(text, 1) IN
    IF k = 0 THEN <<text>>
    ELSE <<SubSeq(text, 1, k - 1)>> \o SplitLines(SubSeq(text, k + 1, Len(text)))

\* "\n".join(parts)
RECURSIVE JoinLines(_)
JoinLines(parts) ==
    IF parts = <<>> THEN <<>>
    ELSE IF Len(parts) = 1 THEN parts[1]
    ELSE parts[1] \o <<NL>> \o JoinLines(Tail(parts))

(***************************************************************************)
(* count_tokens (tokenizer.py).                                            *)
(***************************************************************************)
\* the class of a character for the encoder's splitting of a text into pieces
CharClass(ch) ==
    IF ch = NL THEN "newline"
    ELSE IF ch = " " THEN "space"
    ELSE IF ch \in {"#", ":"} THEN ch
    ELSE "letter"

\* len(self._tokenizer.encode(text)): the encoder is the tiktoken library,
\* which is no part of the repository; it stands here as one token per
\* maximal run of characters of one class, and no token for the empty text
RECURSIVE EncodeLen(_)
EncodeLen(text) ==
    IF text = <<>> THEN 0
    ELSE IF Len(text) = 1 THEN 1
    ELSE (IF CharClass(text[1]) = CharClass(text[2]) THEN 0 ELSE 1) + EncodeLen(Tail(text))

\* the fallback count of TiktokenTokenizer.count_tokens
AvgCharsPerTokenFallback == 4
FallbackCount(text) == (Len(text) \div AvgCharsPerTokenFallback) + 1

VARIABLES
    tokenizer,         \* _default_tokenizer: "tiktoken", or "fallback" when tiktoken is not there
    prompt,            \* argument of split_prompt
    max_tokens,        \* argument of split_prompt
    system_prompt,     \* argument of split_prompt
    sp_pc,             \* where split_prompt is
    available_tokens,  \* local of split_prompt
    lines,             \* local of split_prompt
    i,                 \* local of split_prompt (0-based, as in the code)
    current_chunk,     \* local of split_prompt
    current_tokens,    \* local of split_prompt
    chunks             \* local of split_prompt; the returned list when sp_pc = "done"

splitVars ==
    <<tokenizer, prompt, max_tokens, system_prompt, sp_pc, available_tokens,
      lines, i, current_chunk, current_tokens, chunks>>

\* count_tokens(text) with the default model
count_tokens(text) ==
    IF tokenizer = "tiktoken" THEN EncodeLen(text) ELSE FallbackCount(text)

(***************************************************************************)
(* PromptService (service.py).                                             *)
(***************************************************************************)
\* the tokens reserved for the completion (line 126)
Reserve == 100

\* avg_chars_per_token of _split_large_line (line 249)
AvgCharsPerToken == 4

\* variant: the last, shorter slice is left out
FloorDiv(a, b) == a \div b
\* the number of values of range(0, a, b): ceiling of a / b
CeilDiv(a, b) == (a + b - 1) \div b

\* variant: a line too long is emitted whole
SplitLargeLineWhole(line, maxTokens) == <<line>>
\* variant: a line too long is dropped
SplitLargeLineNone(line, maxTokens) == <<>>
\* variant: only the first slice of the line is kept
SplitLargeLineHead(line, maxTokens) ==
    LET max_chars == maxTokens * AvgCharsPerToken IN
    <<SubSeq(line, 1, IF max_chars < Len(line) THEN max_chars ELSE Len(line))>>
\* PromptService._split_large_line
SplitLargeLine(line, maxTokens) ==
    LET max_chars == maxTokens * AvgCharsPerToken IN
    [k \in 1..CeilDiv(Len(line), max_chars) |->
        SubSeq(line, (k - 1) * max_chars + 1,
               IF k * max_chars < Len(line) THEN k * max_chars ELSE Len(line))]

\* the header of _split_large_section (line 207), None when there is none
SectionHeader(ls) ==
    IF ls # <<>> /\ StartsWith(ls[1], FileHeader) THEN ls[1] ELSE None

\* line 209-239: the for loop of _split_large_section from (0-based) index k
\* on, with the locals chunks, current_chunk, current_tokens as ch, cur, tok;
\* the value is the locals chunks and current_chunk after the loop
RECURSIVE SectionLoop(_, _, _, _, _, _, _)
SectionLoop(ls, k, header, maxTokens, ch, cur, tok) ==
    IF k >= Len(ls) THEN [chunks |-> ch, current_chunk |-> cur]
    ELSE
    LET line == ls[k + 1]
        line_tokens == count_tokens(line)
    IN
    IF tok + line_tokens <= maxTokens
    THEN SectionLoop(ls, k + 1, header, maxTokens, ch, Append(cur, line), tok + line_tokens)
    ELSE
    LET \* line 216-224
        flushed == cur # <<>>
        ch1 == IF flushed THEN Append(ch, JoinLines(cur)) ELSE ch
        cur1 == IF flushed THEN (IF header # None /\ k > 0 THEN <<header>> ELSE <<>>) ELSE cur
        tok1 == IF flushed THEN (IF header # None /\ k > 0 THEN count_tokens(header) ELSE 0) ELSE tok
    IN
    IF count_tokens(line) <= maxTokens
    THEN \* line 228-232
         LET addHeader == cur1 = <<>> /\ header # None
             cur2 == IF addHeader THEN <<header>> ELSE cur1
             tok2 == IF addHeader THEN count_tokens(header) ELSE tok1
         IN SectionLoop(ls, k + 1, header, maxTokens, ch1, Append(cur2, line), tok2 + line_tokens)
    ELSE \* line 235-239
         LET sub == SplitLargeLine(line, maxTokens)
             sub_chunks ==
                 IF header # None
                 THEN [n \in 1..Len(sub) |-> header \o <<NL>> \o sub[n]]
                 ELSE sub
         IN SectionLoop(ls, k + 1, header, maxTokens, ch1 \o sub_chunks, cur1, tok1)

\* PromptService._split_large_section
SplitLargeSection(section, maxTokens) ==
    LET ls == SplitLines(section)
        r == SectionLoop(ls, 0, SectionHeader(ls), maxTokens, <<>>, <<>>, 0)
    IN IF r.current_chunk # <<>>
       THEN Append(r.chunks, JoinLines(r.current_chunk))
       ELSE r.chunks

\* line 124: the tokens of the system prompt
SystemTokens == IF system_prompt # <<>> THEN count_tokens(system_prompt) ELSE 0

\* variant: nothing is reserved for the completion
AvailableTokensNoReserve == max_tokens - SystemTokens
\* line 126
AvailableTokens == max_tokens - SystemTokens - Reserve

\* variant: a prompt of exactly avail tokens is split
PromptFitsStrict(avail) == count_tokens(prompt) < avail
\* line 133: does the whole prompt fit
PromptFits(avail) == count_tokens(prompt) <= avail

\* what split_prompt leaves alone once it is called
SplitInputs == <<tokenizer, prompt, max_tokens, system_prompt>>

\* line 124-130: the budget is used up by the system prompt
ReturnEmpty ==
    /\ sp_pc = "call"
    /\ AvailableTokens <= 0
    /\ available_tokens' = AvailableTokens
    /\ chunks' = <<>>
    /\ sp_pc' = "done"
    /\ UNCHANGED <<SplitInputs, lines, i, current_chunk, current_tokens>>

\* line 124-134: the prompt fits
ReturnWhole ==
    /\ sp_pc = "call"
    /\ AvailableTokens > 0
    /\ PromptFits(AvailableTokens)
    /\ available_tokens' = AvailableTokens
    /\ chunks' = <<prompt>>
    /\ sp_pc' = "done"
    /\ UNCHANGED <<SplitInputs, lines, i, current_chunk, current_tokens>>

\* line 124-143: the prompt is to be split
BeginScan ==
    /\ sp_pc = "call"
    /\ AvailableTokens > 0
    /\ ~PromptFits(AvailableTokens)
    /\ available_tokens' = AvailableTokens
    /\ chunks' = <<>>
    /\ current_chunk' = <<>>
    /\ current_tokens' = 0
    /\ lines' = SplitLines(prompt)
    /\ i' = 0
    /\ sp_pc' = "scan"
    /\ UNCHANGED SplitInputs

\* variant: the header of the section is not consumed
SectionEndStuck(ls, k) == k - 1
\* variant: the section is not ended by the next header
SectionEndAll(ls, k) == Len(ls)
\* the index after the section that starts at (0-based) index k (line 158-162)
RECURSIVE SectionEnd(_, _)
SectionEnd(ls, k) ==
    IF k < Len(ls) /\ ~StartsWith(ls[k + 1], FileHeader) THEN SectionEnd(ls, k + 1) ELSE k

\* line 145-173: one iteration of the while loop at a file header
ScanHeader ==
    /\ sp_pc = "scan"
    /\ i < Len(lines)
    /\ StartsWith(lines[i + 1], FileHeader)
    /\ LET flushed == IF current_chunk # <<>>
                      THEN Append(chunks, JoinLines(current_chunk)) ELSE chunks
           j == SectionEnd(lines, i + 1)
           file_section == SubSeq(lines, i + 1, j)
           file_text == JoinLines(file_section)
           file_tokens == count_tokens(file_text)
       IN /\ i' = j
          /\ chunks' = IF file_tokens <= available_tokens
                       THEN Append(flushed, file_text)
                       ELSE flushed \o SplitLargeSection(file_text, available_tokens)
    /\ current_chunk' = <<>>
    /\ current_tokens' = 0
    /\ UNCHANGED <<SplitInputs, sp_pc, available_tokens, lines>>

\* line 145-147, 174-181: one iteration at a line that fits the accumulator
ScanAppend ==
    /\ sp_pc = "scan"
    /\ i < Len(lines)
    /\ ~StartsWith(lines[i + 1], FileHeader)
    /\ current_tokens + count_tokens(lines[i + 1]) <= available_tokens
    /\ current_chunk' = Append(current_chunk, lines[i + 1])
    /\ current_tokens' = current_tokens + count_tokens(lines[i + 1])
    /\ i' = i + 1
    /\ UNCHANGED <<SplitInputs, sp_pc, available_tokens, lines, chunks>>

\* line 145-147, 174-186: one iteration that flushes the accumulator
ScanFlush ==
    /\ sp_pc = "scan"
    /\ i < Len(lines)
    /\ ~StartsWith(lines[i + 1], FileHeader)
    /\ current_tokens + count_tokens(lines[i + 1]) > available_tokens
    /\ current_chunk # <<>>
    /\ chunks' = Append(chunks, JoinLines(current_chunk))
    /\ current_chunk' = <<>>
    /\ current_tokens' = 0
    /\ UNCHANGED <<SplitInputs, sp_pc, available_tokens, lines, i>>

\* line 145-147, 174-192: one iteration that splits a line too long
ScanSplitLine ==
    /\ sp_pc = "scan"
    /\ i < Len(lines)
    /\ ~StartsWith(lines[i + 1], FileHeader)
    /\ current_tokens + count_tokens(lines[i + 1]) > available_tokens
    /\ current_chunk = <<>>
    /\ chunks' = chunks \o SplitLargeLine(lines[i + 1], available_tokens)
    /\ i' = i + 1
    /\ UNCHANGED <<SplitInputs, sp_pc, available_tokens, lines, current_chunk, current_tokens>>

\* line 145, 194-198: the loop is over
Finish ==
    /\ sp_pc = "scan"
    /\ i >= Len(lines)
    /\ chunks' = IF current_chunk # <<>>
                 THEN Append(chunks, JoinLines(current_chunk)) ELSE chunks
    /\ sp_pc' = "done"
    /\ UNCHANGED <<SplitInputs, available_tokens, lines, i, current_chunk, current_tokens>>

(***************************************************************************)
(* The inputs of split_prompt in the model.                                *)
(***************************************************************************)
\* the most lines of a prompt
MaxLines == 3

\* the largest max_tokens is Reserve + MaxBudget
MaxBudget == 4

\* the lines prompts are made of
LinePool ==
    { <<>>,
      <<"a", "b">>,
      <<"c", "d", "e", "f", "g", "h", "i", "j", "k">>,
      <<" ", "#", " ", "F", "i", "l", "e", ":">>,
      FileHeader,
      FileHeader \o <<"a">> }

\* the system prompts
SystemPrompts == { <<>>, <<"s", "y", "s">> }

Prompts ==
    { JoinLines(ls) : ls \in UNION { [1..n -> LinePool] : n \in 1..MaxLines } }

\* split_prompt is about to be called
SplitInit ==
    /\ tokenizer \in {"tiktoken", "fallback"}
    /\ prompt \in Prompts
    /\ max_tokens \in {1} \cup (Reserve..(Reserve + MaxBudget))
    /\ system_prompt \in SystemPrompts
    /\ sp_pc = "call"
    /\ available_tokens = 0
    /\ lines = <<>>
    /\ i = 0
    /\ current_chunk = <<>>
    /\ current_tokens = 0
    /\ chunks = <<>>

\* split_prompt is not called
SplitParked ==
    /\ tokenizer = "fallback"
    /\ prompt = <<>>
    /\ max_tokens = Reserve
    /\ system_prompt = <<>>
    /\ sp_pc = "idle"
    /\ available_tokens = 0
    /\ lines = <<>>
    /\ i = 0
    /\ current_chunk = <<>>
    /\ current_tokens = 0
    /\ chunks = <<>>

(***************************************************************************)
(* ReviewLLMGateway.ask (review_llm_gateway.py). The hook, the llm client, *)
(* the cost service and the artifacts service are collaborators handed to  *)
(* the gateway: a call of one of them returns or raises, as it chooses.    *)
(***************************************************************************)
VARIABLES
    ask_pc,             \* where ask is: the await it is suspended in, or how it ended
    ask_prompt,         \* argument prompt
    ask_system,         \* argument prompt_system
    max_prompt_tokens,  \* settings.llm.meta.max_prompt_tokens, None when not set
    chat_result,        \* local result: what llm.chat returned; None before
    cost_report,        \* local report: what cost.calculate returned; None before
    invoked,            \* the collaborators' methods ask invoked, in order
    answers,            \* what the invocations that are over did, in the same order
    ask_log,            \* logging sink: the records above debug level, in order
    ask_result          \* how ask ended

askVars ==
    <<ask_pc, ask_prompt, ask_system, max_prompt_tokens, chat_result, cost_report,
      invoked, answers, ask_log, ask_result>>

AskInputs == <<ask_prompt, ask_system, max_prompt_tokens>>

\* what an awaited collaborator call does: it returns, raises an exception or
\* the task is cancelled while ask is suspended in it
AwaitOutcomes == {"ok", "Exception", "CancelledError"}

\* what the synchronous cost.calculate does
SyncOutcomes == {"ok", "Exception"}

\* the texts an llm answers with in the model
ResponseTexts == { <<>>, <<"o", "k">> }

\* the cost reports cost.calculate returns: None or a report
CostReports == { None, [kind |-> "report"] }

\* an int that may also be None
Limit(n) == [kind |-> "int", value |-> n]

\* a str that may also be None
Str(text) == [kind |-> "str", text |-> text]

\* an exception object of class t raised into ask out of the call of callee
AskExc(t, callee) == [kind |-> "exception", type |-> t, callee |-> callee]

\* variant: no except clause
AskCaughtNever(e) == FALSE
\* line 63: `except Exception as error`
AskCaught(e) == "Exception" \in Bases(e.type)

\* line 27-29: total_tokens
TotalTokens == count_tokens(ask_prompt) + count_tokens(ask_system)

\* line 36-40: the warning for a prompt over the limit
LimitWarning ==
    IF max_prompt_tokens # None /\ TotalTokens > max_prompt_tokens.value
    THEN <<"warning: prompt exceeds limit">> ELSE <<>>

\* line 45-48: the warning for an empty response text
EmptyWarning(text) == IF text = <<>> THEN <<"warning: empty response">> ELSE <<>>

\* line 50-52: the info record of the report, when there is one
ReportInfo(rep) == IF rep # None THEN <<"info: report">> ELSE <<>>

\* line 63-65: exception e is raised inside the try; lg and inv are the log
\* and the invocations so far
AskOnException(e, lg, inv) ==
    IF AskCaught(e)
    THEN /\ ask_log' = lg \o <<"exception: LLM request failed">>
         /\ invoked' = Append(inv, "emit_chat_error")
         /\ ask_pc' = "await_chat_error"
         /\ UNCHANGED ask_result
    ELSE /\ ask_log' = lg
         /\ invoked' = inv
         /\ ask_pc' = "raised"
         /\ ask_result' = [kind |-> "raise", value |-> e]

\* line 25-42: ask runs to its first await, of hook.emit_chat_start
AskStart ==
    /\ ask_pc = "call"
    /\ ask_log' = ask_log \o LimitWarning
    /\ invoked' = Append(invoked, "emit_chat_start")
    /\ ask_pc' = "await_chat_start"
    /\ UNCHANGED <<AskInputs, chat_result, cost_report, answers, ask_result>>

\* line 42-43: emit_chat_start is over; on its return llm.chat is awaited
ChatStartDone(o) ==
    /\ ask_pc = "await_chat_start"
    /\ IF o = "ok"
       THEN /\ invoked' = Append(invoked, "llm.chat")
            /\ ask_pc' = "await_chat"
            /\ UNCHANGED <<ask_log, ask_result>>
       ELSE AskOnException(AskExc(o, "emit_chat_start"), ask_log, invoked)
    /\ answers' = Append(answers, o)
    /\ UNCHANGED <<AskInputs, chat_result, cost_report>>

\* line 43-54: llm.chat is over; on its return the cost is calculated and
\* emit_chat_complete is awaited
ChatDone(o, text, co, rep) ==
    /\ ask_pc = "await_chat"
    /\ IF o # "ok"
       THEN /\ AskOnException(AskExc(o, "llm.chat"), ask_log, invoked)
            /\ UNCHANGED <<chat_result, cost_report>>
       ELSE /\ chat_result' = [kind |-> "result", text |-> text]
            /\ LET lg == ask_log \o EmptyWarning(text)
                   inv == Append(invoked, "cost.calculate")
               IN IF co # "ok"
                  THEN /\ AskOnException(AskExc(co, "cost.calculate"), lg, inv)
                       /\ UNCHANGED cost_report
                  ELSE /\ cost_report' = rep
                       /\ ask_log' = lg \o ReportInfo(rep)
                       /\ invoked' = Append(inv, "emit_chat_complete")
                       /\ ask_pc' = "await_chat_complete"
                       /\ UNCHANGED ask_result
    /\ answers' = IF o = "ok" THEN answers \o <<o, co>> ELSE Append(answers, o)
    /\ UNCHANGED AskInputs

\* line 54-55: emit_chat_complete is over; on its return artifacts.save_llm
\* is awaited
ChatCompleteDone(o) ==
    /\ ask_pc = "await_chat_complete"
    /\ IF o = "ok"
       THEN /\ invoked' = Append(invoked, "artifacts.save_llm")
            /\ ask_pc' = "await_save"
            /\ UNCHANGED <<ask_log, ask_result>>
       ELSE AskOnException(AskExc(o, "emit_chat_complete"), ask_log, invoked)
    /\ answers' = Append(answers, o)
    /\ UNCHANGED <<AskInputs, chat_result, cost_report>>

\* line 55-62: save_llm is over; on its return ask returns result.text
SaveDone(o) ==
    /\ ask_pc = "await_save"
    /\ IF o = "ok"
       THEN /\ ask_pc' = "returned"
            /\ ask_result' = [kind |-> "return", value |-> Str(chat_result.text)]
            /\ UNCHANGED <<ask_log, invoked>>
       ELSE AskOnException(AskExc(o, "artifacts.save_llm"), ask_log, invoked)
    /\ answers' = Append(answers, o)
    /\ UNCHANGED <<AskInputs, chat_result, cost_report>>

\* line 65: emit_chat_error, awaited in the except clause, is over; on its
\* return ask falls off its end and returns None
ChatErrorDone(o) ==
    /\ ask_pc = "await_chat_error"
    /\ IF o = "ok"
       THEN /\ ask_pc' = "returned"
            /\ ask_result' = [kind |-> "return", value |-> None]
       ELSE /\ ask_pc' = "raised"
            /\ ask_result' = [kind |-> "raise", value |-> AskExc(o, "emit_chat_error")]
    /\ answers' = Append(answers, o)
    /\ UNCHANGED <<AskInputs, chat_result, cost_report, invoked, ask_log>>

\* the prompts ask is called with in the model
AskPrompts == { <<>>, <<"a", "b">>, <<"c", "d", "e", "f", "g", "h", "i", "j", "k">> }

\* the values of settings.llm.meta.max_prompt_tokens in the model: None or an int
AskLimits == {None} \cup {Limit(n) : n \in 1..MaxBudget}

\* ask is about to be called
AskInit ==
    /\ ask_prompt \in AskPrompts
    /\ ask_system \in SystemPrompts
    /\ max_prompt_tokens \in AskLimits
    /\ ask_pc = "call"
    /\ chat_result = None
    /\ cost_report = None
    /\ invoked = <<>>
    /\ answers = <<>>
    /\ ask_log = <<>>
    /\ ask_result = None

\* ask is not called
AskParked ==
    /\ ask_prompt = <<>>
    /\ ask_system = <<>>
    /\ max_prompt_tokens = None
    /\ ask_pc = "idle"
    /\ chat_result = None
    /\ cost_report = None
    /\ invoked = <<>>
    /\ answers = <<>>
    /\ ask_log = <<>>
    /\ ask_result = None

vars == <<retryVars, splitVars, askVars>>

\* the retry transport
Init == RetryInit /\ SplitParked /\ AskParked

Next ==
    \/ \E c \in Calls : Call(c) /\ UNCHANGED <<splitVars, askVars>>
    \/ \E c \in Calls, s \in Statuses : AttemptReturns(c, s) /\ UNCHANGED <<splitVars, askVars>>
    \/ \E c \in Calls, t \in TransportExceptions : AttemptRaises(c, t) /\ UNCHANGED <<splitVars, askVars>>
    \/ \E c \in Calls : SleepDone(c) /\ UNCHANGED <<splitVars, askVars>>
    \/ \E c \in Calls : Cancel(c) /\ UNCHANGED <<splitVars, askVars>>

Spec == Init /\ [][Next]_vars

\* the awaited attempt of call c completes, with a response or an exception
AttemptCompletes(c) ==
    /\ \/ \E s \in Statuses : AttemptReturns(c, s)
       \/ \E t \in TransportExceptions : AttemptRaises(c, t)
    /\ UNCHANGED <<splitVars, askVars>>

\* the awaited delay of call c completes
DelayCompletes(c) == SleepDone(c) /\ UNCHANGED <<splitVars, askVars>>

\* the calls under the condition that each underlying attempt and each delay
\* completes: the event loop resumes a coroutine whose await is over
SpecFair ==
    /\ Spec
    /\ \A c \in Calls : WF_vars(AttemptCompletes(c)) /\ WF_vars(DelayCompletes(c))

\* the prompt chunker
InitSplit == RetryParked /\ SplitInit /\ AskParked

NextSplit ==
    \/ ReturnEmpty /\ UNCHANGED <<retryVars, askVars>>
    \/ ReturnWhole /\ UNCHANGED <<retryVars, askVars>>
    \/ BeginScan /\ UNCHANGED <<retryVars, askVars>>
    \/ ScanHeader /\ UNCHANGED <<retryVars, askVars>>
    \/ ScanAppend /\ UNCHANGED <<retryVars, askVars>>
    \/ ScanFlush /\ UNCHANGED <<retryVars, askVars>>
    \/ ScanSplitLine /\ UNCHANGED <<retryVars, askVars>>
    \/ Finish /\ UNCHANGED <<retryVars, askVars>>

SpecSplit == InitSplit /\ [][NextSplit]_vars

\* one call of ask, by either token counter
InitAsk ==
    /\ RetryParked
    /\ tokenizer \in {"tiktoken", "fallback"}
    /\ prompt = <<>>
    /\ max_tokens = Reserve
    /\ system_prompt = <<>>
    /\ sp_pc = "idle"
    /\ available_tokens = 0
    /\ lines = <<>>
    /\ i = 0
    /\ current_chunk = <<>>
    /\ current_tokens = 0
    /\ chunks = <<>>
    /\ AskInit

NextAsk ==
    \/ AskStart /\ UNCHANGED <<retryVars, splitVars>>
    \/ \E o \in AwaitOutcomes : ChatStartDone(o) /\ UNCHANGED <<retryVars, splitVars>>
    \/ \E o \in AwaitOutcomes, text \in ResponseTexts, co \in SyncOutcomes, rep \in CostReports :
          ChatDone(o, text, co, rep) /\ UNCHANGED <<retryVars, splitVars>>
    \/ \E o \in AwaitOutcomes : ChatCompleteDone(o) /\ UNCHANGED <<retryVars, splitVars>>
    \/ \E o \in AwaitOutcomes : SaveDone(o) /\ UNCHANGED <<retryVars, splitVars>>
    \/ \E o \in AwaitOutcomes : ChatErrorDone(o) /\ UNCHANGED <<retryVars, splitVars>>

SpecAsk == InitAsk /\ [][NextAsk]_vars

(***************************************************************************)
(* Vocabulary of the properties of the retry transport.                    *)
(***************************************************************************)
\* an outcome that is a response with a status of the retryable set
RetryableStatusOutcome(o) == o.kind = "response" /\ o.status \in retry_status_codes

\* an outcome that is a response with a status outside the retryable set
FinalStatusOutcome(o) == o.kind = "response" /\ o.status \notin retry_status_codes

\* an exception class of a retryable kind: ReadTimeout, ConnectTimeout,
\* NetworkError or a subclass of one of them
RetryableKind(t) == Bases(t) \cap {"ReadTimeout", "ConnectTimeout", "NetworkError"} # {}

RetryableExceptionOutcome(o) == o.kind = "exception" /\ RetryableKind(o.type)

FatalExceptionOutcome(o) == o.kind = "exception" /\ ~RetryableKind(o.type)

RetryableFailure(o) == RetryableStatusOutcome(o) \/ RetryableExceptionOutcome(o)

\* the call ran to its end (it was not cancelled)
Ended(c) == pc[c] \in {"returned", "raised", "failed"}

\* the call was cancelled while suspended
Cancelled(c) == result[c].kind = "raise" /\ result[c].value.type = "CancelledError"

\* the call made all max_retries attempts and each of them failed retryably
Exhausted(c) ==
    /\ Ended(c)
    /\ Len(outcomes[c]) = max_retries
    /\ \A j \in 1..Len(outcomes[c]) : RetryableFailure(outcomes[c][j])

\* the attempts of call c that returned a response
ResponseIndices(c) == {j \in 1..Len(outcomes[c]) : outcomes[c][j].kind = "response"}

\* the largest member of a non-empty set of numbers
MaxOf(S) == CHOOSE m \in S : \A x \in S : x <= m

\* the records of one level in the sink of call c
Records(c, level) == SelectSeq(log[c], LAMBDA r : r.level = level)

\* C1: for every k in 1..max_retries, when attempts 1..k-1 returned a
\* retryable status and attempt k returned a status outside the retryable
\* set, the call returned exactly the k-th response and the underlying
\* transport was invoked exactly k times, then and ever after.
C1_RetryThenSuccess ==
    \A c \in Calls : \A k \in 1..max_retries :
        ( /\ Len(outcomes[c]) >= k
          /\ \A j \in 1..(k - 1) : RetryableStatusOutcome(outcomes[c][j])
          /\ FinalStatusOutcome(outcomes[c][k]) )
        => /\ pc[c] = "returned"
           /\ result[c] = [kind |-> "return", value |-> outcomes[c][k]]
           /\ invocations[c] = k
           /\ Len(outcomes[c]) = k

C1_Witness ==
    \E c \in Calls :
        /\ Len(outcomes[c]) = 2
        /\ RetryableStatusOutcome(outcomes[c][1])
        /\ FinalStatusOutcome(outcomes[c][2])
        /\ pc[c] = "returned"

\* C2: a call that ended and was given a retryable-status response on every
\* attempt invoked the underlying transport exactly max_retries times and
\* returned (did not raise) the very response of the last attempt.
C2_ExhaustedReturnsLast ==
    \A c \in Calls :
        ( /\ Ended(c)
          /\ outcomes[c] # <<>>
          /\ \A j \in 1..Len(outcomes[c]) : RetryableStatusOutcome(outcomes[c][j]) )
        => /\ invocations[c] = max_retries
           /\ Len(outcomes[c]) = max_retries
           /\ pc[c] = "returned"
           /\ result[c] = [kind |-> "return", value |-> outcomes[c][max_retries]]

C2_Witness ==
    \E c \in Calls :
        /\ pc[c] = "returned"
        /\ Len(outcomes[c]) = 2
        /\ \A j \in 1..2 : RetryableStatusOutcome(outcomes[c][j])

\* C3: a call that ended and was given a retryable exception on every
\* attempt invoked the underlying transport exactly max_retries times and
\* raised the exhaustion error, an exception that is none of the underlying
\* exceptions and whose class is no retryable kind.
C3_ExhaustedRaises ==
    \A c \in Calls :
        ( /\ Ended(c)
          /\ \A j \in 1..Len(outcomes[c]) : RetryableExceptionOutcome(outcomes[c][j]) )
        => /\ invocations[c] = max_retries
           /\ Len(outcomes[c]) = max_retries
           /\ pc[c] = "raised"
           /\ result[c].kind = "raise"
           /\ result[c].value.type = "Exception"
           /\ ~RetryableKind(result[c].value.type)
           /\ \A j \in 1..Len(outcomes[c]) : result[c].value # outcomes[c][j]

C3_Witness ==
    \E c \in Calls :
        /\ pc[c] = "raised"
        /\ Len(outcomes[c]) = 2
        /\ outcomes[c][1].type # outcomes[c][2].type
        /\ \A j \in 1..2 : RetryableExceptionOutcome(outcomes[c][j])

\* C4: when attempt k raised an exception of no retryable kind, the call
\* propagated that same exception at once: k is the last attempt, the
\* underlying transport was invoked exactly k times, and the only delays
\* slept are those after the k-1 earlier attempts.
C4_FatalPropagates ==
    \A c \in Calls : \A k \in 1..Len(outcomes[c]) :
        FatalExceptionOutcome(outcomes[c][k])
        => /\ k = Len(outcomes[c])
           /\ pc[c] = "failed"
           /\ result[c] = [kind |-> "raise", value |-> outcomes[c][k]]
           /\ invocations[c] = k
           /\ sleeps[c] = k - 1

C4_Witness ==
    \E c \in Calls :
        /\ Len(outcomes[c]) = 2
        /\ RetryableFailure(outcomes[c][1])
        /\ FatalExceptionOutcome(outcomes[c][2])
        /\ pc[c] = "failed"

\* C5: no exception of a retryable kind that the underlying transport raised
\* ever reaches the caller, whatever the attempt: a call that raises raises
\* an exception of no retryable kind, and a call whose attempts all failed
\* retryably ends by returning a response or by raising the exhaustion error.
C5_NoRetryableLeak ==
    \A c \in Calls :
        /\ result[c].kind = "raise" =>
              /\ ~RetryableKind(result[c].value.type)
              /\ \A j \in 1..Len(outcomes[c]) :
                    RetryableExceptionOutcome(outcomes[c][j]) => result[c].value # outcomes[c][j]
        /\ ( /\ Ended(c)
             /\ \A j \in 1..Len(outcomes[c]) : RetryableFailure(outcomes[c][j]) )
           => \/ result[c].kind = "return" /\ result[c].value.kind = "response"
              \/ result[c] = [kind |-> "raise", value |-> Exc(c, 0, "Exception")]

C5_Witness ==
    \E c \in Calls :
        /\ Ended(c)
        /\ Len(outcomes[c]) = max_retries
        /\ max_retries = 2
        /\ RetryableExceptionOutcome(outcomes[c][1])
        /\ outcomes[c][2].kind = "exception" /\ outcomes[c][2].type = "ConnectError"

\* C6 as stated: a response returned after all max_retries attempts were
\* made is the response of the final attempt; when the final attempt raised,
\* no response is returned.
C6_Original ==
    \A c \in Calls :
        (Exhausted(c) /\ max_retries >= 1)
        => /\ result[c].kind = "return" => result[c].value = outcomes[c][max_retries]
           /\ outcomes[c][max_retries].kind = "exception" => result[c].kind # "return"

\* C6 as amended: after all max_retries attempts failed retryably the call
\* returns the response of the latest attempt that returned one (the final
\* attempt's when that attempt returned, an earlier attempt's when the final
\* attempt raised), and raises the exhaustion error only when no attempt
\* returned a response.
C6_ReturnsLatestResponse ==
    \A c \in Calls :
        Exhausted(c)
        => IF ResponseIndices(c) # {}
           THEN result[c] = [kind |-> "return", value |-> outcomes[c][MaxOf(ResponseIndices(c))]]
           ELSE result[c] = [kind |-> "raise", value |-> Exc(c, 0, "Exception")]

C6_Witness ==
    \E c \in Calls :
        /\ Exhausted(c)
        /\ max_retries = 2
        /\ RetryableStatusOutcome(outcomes[c][1])
        /\ RetryableExceptionOutcome(outcomes[c][2])
        /\ result[c].kind = "return"

\* the outcome a call has after the underlying transport gave it h, the
\* call running alone: "running" while more attempts are to come
Alone(c, h) ==
    IF h # <<>> /\ FinalStatusOutcome(h[Len(h)])
    THEN [kind |-> "return", value |-> h[Len(h)]]
    ELSE IF h # <<>> /\ FatalExceptionOutcome(h[Len(h)])
    THEN [kind |-> "raise", value |-> h[Len(h)]]
    ELSE IF Len(h) < max_retries
    THEN [kind |-> "running"]
    ELSE LET R == {j \in 1..Len(h) : h[j].kind = "response"} IN
         IF R # {} THEN [kind |-> "return", value |-> h[MaxOf(R)]]
         ELSE [kind |-> "raise", value |-> Exc(c, 0, "Exception")]

\* C7: under every interleaving of the calls, each call's attempt count,
\* remembered last response and outcome are those the call has when it runs
\* alone and is given the same outcomes by the underlying transport.
C7_CallsIndependent ==
    \A c \in Calls :
        pc[c] # "idle" =>
        /\ \A j \in 1..Len(outcomes[c]) : outcomes[c][j].id = <<c, j>>
        /\ \A j \in 1..(Len(outcomes[c]) - 1) : RetryableFailure(outcomes[c][j])
        /\ invocations[c] \in {Len(outcomes[c]), Len(outcomes[c]) + 1}
        /\ invocations[c] <= max_retries
        /\ invocations[c] >= 1 => attempt[c] = invocations[c] - 1
        /\ pc[c] = "attempting" => invocations[c] = Len(outcomes[c]) + 1
        /\ pc[c] = "sleeping" => invocations[c] = Len(outcomes[c])
        /\ last_response[c] =
              IF ResponseIndices(c) = {} THEN None
              ELSE outcomes[c][MaxOf(ResponseIndices(c))]
        /\ IF Cancelled(c)
           THEN /\ pc[c] = "aborted"
                /\ \A j \in 1..Len(outcomes[c]) : RetryableFailure(outcomes[c][j])
           ELSE /\ pc[c] \in {"attempting", "sleeping"} \/ Ended(c)
                /\ pc[c] \in {"attempting", "sleeping"} =>
                      /\ result[c] = None
                      /\ \A j \in 1..Len(outcomes[c]) : RetryableFailure(outcomes[c][j])
                /\ Ended(c) => result[c] = Alone(c, outcomes[c])

C7_Witness ==
    /\ pc["c1"] = "sleeping" /\ attempt["c1"] = 0
    /\ pc["c2"] = "attempting" /\ attempt["c2"] = 1
    /\ last_response["c1"] # None
    /\ last_response["c2"] = None

\* C8: a call cancelled while suspended in an attempt or in the delay ends
\* there by the cancellation itself, handled neither as a retryable nor as a
\* non-retryable failure; from then on it starts no attempt, sleeps no delay
\* and logs nothing.
C8_CancelEndsCall ==
    [][\A c \in Calls :
          (result'[c].kind = "raise" /\ result'[c].value.type = "CancelledError")
          => /\ pc[c] \in {"attempting", "sleeping", "aborted"}
             /\ pc'[c] = "aborted"
             /\ invocations'[c] = invocations[c]
             /\ sleeps'[c] = sleeps[c]
             /\ outcomes'[c] = outcomes[c]
             /\ log'[c] = log[c]]_vars

C8_Witness ==
    \E c, d \in Calls :
        /\ Cancelled(c) /\ Cancelled(d)
        /\ max_retries = 2
        /\ invocations[c] = 1 /\ Len(outcomes[c]) = 0
        /\ invocations[d] = 1 /\ Len(outcomes[d]) = 1 /\ sleeps[d] = 1

\* the warning records the sink of call c must hold: one per attempt that
\* failed retryably, in order
WarningsMatch(c) ==
    LET W == Records(c, "warning")
        F == {j \in 1..Len(outcomes[c]) : RetryableFailure(outcomes[c][j])}
    IN /\ Len(W) = Cardinality(F)
       /\ \A n \in 1..Len(W) : W[n].attempt \in F
       /\ \A n \in 1..(Len(W) - 1) : W[n].attempt < W[n + 1].attempt

\* C9 as stated: one warning record per attempt that failed retryably, one
\* error record when all max_retries attempts are exhausted, be it that the
\* call returns the last response or raises the exhaustion error, and no
\* record for a call that succeeds on its first attempt.
C9_Original ==
    \A c \in Calls :
        /\ WarningsMatch(c)
        /\ (Exhausted(c) /\ max_retries >= 1) => Len(Records(c, "error")) = 1
        /\ (Len(outcomes[c]) = 1 /\ FinalStatusOutcome(outcomes[c][1])) => log[c] = <<>>

\* C9 as amended: one warning record per attempt that failed retryably; when
\* all max_retries attempts are exhausted, exactly one error record if the
\* call returns the last response and none if it raises the exhaustion
\* error; no error record otherwise, and no record at all for a call that
\* succeeds on its first attempt.
C9_LogRecords ==
    \A c \in Calls :
        /\ WarningsMatch(c)
        /\ Len(Records(c, "error")) =
              (IF Exhausted(c) /\ result[c].kind = "return" THEN 1 ELSE 0)
        /\ Len(log[c]) = Len(Records(c, "warning")) + Len(Records(c, "error"))
        /\ (Len(outcomes[c]) = 1 /\ FinalStatusOutcome(outcomes[c][1])) => log[c] = <<>>

C9_Witness ==
    \E c, d \in Calls :
        /\ max_retries = 2
        /\ Exhausted(c) /\ result[c].kind = "raise" /\ Len(log[c]) = 2
        /\ Exhausted(d) /\ result[d].kind = "return" /\ Len(log[d]) = 3

(***************************************************************************)
(* Properties of the prompt chunker.                                       *)
(***************************************************************************)
\* C10: whenever available = max_tokens - tokens(system_prompt) - 100 is
\* positive and tokens(prompt) <= available, split_prompt returns at once a
\* list of exactly one chunk, and that chunk is the prompt unchanged.
C10_FittingPromptIsOneChunk ==
    LET available == max_tokens - count_tokens(system_prompt) - Reserve IN
    (sp_pc # "idle" /\ available > 0 /\ count_tokens(prompt) <= available)
    => /\ sp_pc \in {"call", "done"}
       /\ sp_pc = "done" => (Len(chunks) = 1 /\ chunks[1] = prompt)

C10_Witness ==
    LET available == max_tokens - count_tokens(system_prompt) - Reserve IN
    /\ sp_pc = "done"
    /\ available > 0
    /\ count_tokens(prompt) = available
    /\ system_prompt # <<>>
    /\ Len(SplitLines(prompt)) >= 2
    /\ \E n \in 1..Len(SplitLines(prompt)) : StartsWith(SplitLines(prompt)[n], FileHeader)
    /\ chunks = <<prompt>>

\* the lines of the prompt
PromptLines == SplitLines(prompt)

\* the header lines of the prompt
HeaderLines == {PromptLines[n] : n \in {m \in 1..Len(PromptLines) : StartsWith(PromptLines[m], FileHeader)}}

\* the elements of a sequence
Range(seq) == {seq[n] : n \in 1..Len(seq)}

\* ch is a force-split slice of a line of the prompt that alone exceeds
\* available, as it is or behind the re-emitted header of its section
IsForceSplitSlice(ch) ==
    \E n \in 1..Len(PromptLines) :
        /\ count_tokens(PromptLines[n]) > available_tokens
        /\ \E sl \in Range(SplitLargeLine(PromptLines[n], available_tokens)) :
              \/ ch = sl
              \/ \E h \in HeaderLines : ch = h \o <<NL>> \o sl

\* C11 as stated, for the character-count counter of the code: every
\* returned chunk that is no force-split slice of an oversize line has
\* count(chunk) <= available, count applied to the chunk's whole text.
C11_Original ==
    (sp_pc = "done" /\ tokenizer = "fallback")
    => \A n \in 1..Len(chunks) :
          ~IsForceSplitSlice(chunks[n]) => count_tokens(chunks[n]) <= available_tokens

\* C12 as stated: whenever tokens(system_prompt) + 100 >= max_tokens, the
\* empty system prompt included, split_prompt returns the empty list.
C12_Original ==
    (sp_pc = "done" /\ count_tokens(system_prompt) + Reserve >= max_tokens)
    => chunks = <<>>

\* C12 as amended: with the system prompt's tokens taken as 0 when the
\* system prompt is empty and as tokens(system_prompt) otherwise, whenever
\* these tokens + 100 >= max_tokens, split_prompt returns at once the empty
\* list, whatever the prompt.
C12_BudgetTooSmallIsEmpty ==
    LET system_tokens == IF system_prompt = <<>> THEN 0 ELSE count_tokens(system_prompt) IN
    (sp_pc # "idle" /\ system_tokens + Reserve >= max_tokens)
    => /\ sp_pc \in {"call", "done"}
       /\ sp_pc = "done" => chunks = <<>>

C12_Witness ==
    /\ sp_pc = "done"
    /\ system_prompt # <<>>
    /\ count_tokens(system_prompt) + Reserve = max_tokens
    /\ Len(PromptLines) >= 2
    /\ chunks = <<>>

\* the (1-based) indices of the header lines of the prompt, i.e. where its
\* sections start
SectionStarts == {n \in 1..Len(PromptLines) : StartsWith(PromptLines[n], FileHeader)}

\* the lines before the first header
PreHeaderLines ==
    IF SectionStarts = {} THEN PromptLines
    ELSE SubSeq(PromptLines, 1, (CHOOSE n \in SectionStarts : \A m \in SectionStarts : n <= m) - 1)

\* the text of the section that starts at line n: up to the next header
SectionText(n) ==
    LET later == {m \in SectionStarts : m > n}
        last == IF later = {} THEN Len(PromptLines)
                ELSE (CHOOSE m \in later : \A x \in later : m <= x) - 1
    IN JoinLines(SubSeq(PromptLines, n, last))

\* the k-th smallest member of a set of numbers
RECURSIVE Nth(_, _)
Nth(S, k) ==
    LET least == CHOOSE n \in S : \A m \in S : n <= m IN
    IF k = 1 THEN least ELSE Nth(S \ {least}, k - 1)

\* the number of header lines in a text
HeaderCount(text) ==
    Cardinality({n \in 1..Len(SplitLines(text)) : StartsWith(SplitLines(text)[n], FileHeader)})

\* the sum of the token counts of the lines of ls
RECURSIVE SumTokens(_)
SumTokens(ls) == IF ls = <<>> THEN 0 ELSE count_tokens(ls[1]) + SumTokens(Tail(ls))

\* the prompt has sections and each of them fits within available
SectionsAllFit ==
    /\ SectionStarts # {}
    /\ \A n \in SectionStarts : count_tokens(SectionText(n)) <= available_tokens

RECURSIVE Concat(_)
Concat(texts) == IF texts = <<>> THEN <<>> ELSE texts[1] \o Concat(Tail(texts))

\* sl are consecutive pieces of at most n characters that make up line
IsPartition(sl, line, n) ==
    /\ Concat(sl) = line
    /\ \A k \in 1..Len(sl) : Len(sl[k]) >= 1 /\ Len(sl[k]) <= n
    /\ \A k \in 1..(Len(sl) - 1) : Len(sl[k]) = n

\* C14: for every line and every available > 0 the slices that
\* _split_large_line makes of the line are consecutive pieces of at most
\* available * 4 characters whose concatenation, in order, is the line; and
\* when the scan force-splits a line, the chunks it adds are these slices.
C14_SlicesPartitionLine ==
    /\ [](available_tokens > 0
          => \A n \in 1..Len(PromptLines) :
                IsPartition(SplitLargeLine(PromptLines[n], available_tokens),
                            PromptLines[n], available_tokens * 4))
    /\ [][(sp_pc = "scan" /\ sp_pc' = "scan" /\ i' = i + 1 /\ current_chunk' = current_chunk
             /\ ~StartsWith(lines[i + 1], FileHeader))
          => /\ Len(chunks') > Len(chunks)
             /\ SubSeq(chunks', 1, Len(chunks)) = chunks
             /\ IsPartition(SubSeq(chunks', Len(chunks) + 1, Len(chunks')),
                            lines[i + 1], available_tokens * 4)]_vars

C14_Witness ==
    /\ sp_pc = "done"
    /\ available_tokens > 0
    /\ \E n \in 1..Len(PromptLines) :
          LET sl == SplitLargeLine(PromptLines[n], available_tokens) IN
          /\ ~StartsWith(PromptLines[n], FileHeader)
          /\ count_tokens(PromptLines[n]) > available_tokens
          /\ Len(sl) = 3
          /\ Len(sl[3]) < Len(sl[2])
          /\ \E k \in 1..(Len(chunks) - 2) : SubSeq(chunks, k, k + 2) = sl

\* the lines of ls that are no header lines, in order
ContentLines(ls) == SelectSeq(ls, LAMBDA l : ~StartsWith(l, FileHeader))

\* the lines of the texts of a sequence, in order
RECURSIVE LinesOf(_)
LinesOf(texts) == IF texts = <<>> THEN <<>> ELSE SplitLines(texts[1]) \o LinesOf(Tail(texts))

\* the prompt is one that split_prompt splits
IsSplit == available_tokens > 0 /\ count_tokens(prompt) > available_tokens

\* C15 as stated: for a prompt that is split, the non-header lines carried
\* by the chunks, read chunk by chunk, are the non-header lines of the
\* prompt in source order, each exactly once: line by line when no line is
\* force-split, and character by character (a line being carried as its
\* slices) in every case.
C15_Original ==
    (sp_pc = "done" /\ IsSplit)
    => /\ Concat(ContentLines(LinesOf(chunks))) = Concat(ContentLines(PromptLines))
       /\ (\A n \in 1..Len(PromptLines) : count_tokens(PromptLines[n]) <= available_tokens)
          => ContentLines(LinesOf(chunks)) = ContentLines(PromptLines)

\* every header line of the prompt alone fits within available
HeadersFit == \A h \in HeaderLines : count_tokens(h) <= available_tokens

\* C15 as amended: for a prompt that is split and whose header lines each
\* fit within available, the non-header lines carried by the chunks, read
\* chunk by chunk, are the non-header lines of the prompt in source order,
\* each exactly once: line by line when no line is force-split, and
\* character by character (a line being carried as its slices) in every case.
C15_ContentPreserved ==
    (sp_pc = "done" /\ IsSplit /\ HeadersFit)
    => /\ Concat(ContentLines(LinesOf(chunks))) = Concat(ContentLines(PromptLines))
       /\ (\A n \in 1..Len(PromptLines) : count_tokens(PromptLines[n]) <= available_tokens)
          => ContentLines(LinesOf(chunks)) = ContentLines(PromptLines)

C15_Witness ==
    /\ sp_pc = "done"
    /\ IsSplit
    /\ HeadersFit
    /\ Len(PromptLines) = 3
    /\ StartsWith(PromptLines[1], FileHeader)
    /\ count_tokens(PromptLines[2]) > available_tokens
    /\ PromptLines[3] # <<>>
    /\ ~StartsWith(PromptLines[3], FileHeader)
    /\ Len(chunks) >= 3
    /\ \A n \in 1..Len(chunks) : SplitLines(chunks[n])[1] = PromptLines[1]

\* the first line of a chunk
FirstLine(text) == SplitLines(text)[1]

\* the scan is at a '# File:' header whose section exceeds available, and this
\* step sub-splits the section
SubSplitStep ==
    /\ sp_pc = "scan"
    /\ i < Len(lines)
    /\ StartsWith(lines[i + 1], FileHeader)
    /\ i' > i
    /\ count_tokens(JoinLines(SubSeq(lines, i + 1, i'))) > available_tokens

\* the number of chunks before the sub-chunks of the section of this step: the
\* chunks so far and the flushed accumulator
ChunksBeforeSection == Len(chunks) + (IF current_chunk # <<>> THEN 1 ELSE 0)

\* C16: when a section that starts with a '# File:' header exceeds available
\* and is sub-split, every sub-chunk emitted for the section, accumulated or
\* force-split slice, has the section's header line as its first line.
C16_Original ==
    [][SubSplitStep
       => \A n \in (ChunksBeforeSection + 1)..Len(chunks') :
             FirstLine(chunks'[n]) = lines[i + 1]]_vars

\* str.strip() leaves something: the text has a character that is not white space
NonBlank(text) == \E n \in 1..Len(text) : text[n] \notin {" ", NL}

\* C17: for a non-blank prompt that is split into chunks, every returned
\* chunk has at least one character that is not white space: no chunk is
\* empty or made only of blank lines.
C17_Original ==
    (sp_pc = "done" /\ IsSplit /\ NonBlank(prompt))
    => \A n \in 1..Len(chunks) : NonBlank(chunks[n])

\* C18: split_prompt returns an empty list only when available <= 0 or the
\* prompt is empty: for every non-empty prompt with available > 0 the
\* returned list has at least one chunk.
C18_EmptyOnlyWhenDegenerate ==
    sp_pc = "done"
    => /\ chunks = <<>> => (available_tokens <= 0 \/ prompt = <<>>)
       /\ (prompt # <<>> /\ available_tokens > 0) => Len(chunks) >= 1

\* a non-empty prompt made of one line too long for a positive budget has
\* been split into its slices
C18_Witness ==
    /\ sp_pc = "done"
    /\ IsSplit
    /\ Len(PromptLines) = 1
    /\ ~StartsWith(prompt, FileHeader)
    /\ Len(chunks) >= 2

\* what is left to do for the scan: two per line not yet consumed, one for a
\* non-empty accumulator
ScanMeasure == 2 * (Len(lines) - i) + (IF current_chunk # <<>> THEN 1 ELSE 0)

\* one iteration of the while loop of split_prompt consumes at least one line
\* or flushes a non-empty accumulator as one chunk
IterationProgress ==
    \/ i' > i
    \/ /\ i' = i
       /\ current_chunk # <<>>
       /\ current_chunk' = <<>>
       /\ chunks' = Append(chunks, JoinLines(current_chunk))

\* C19: for every prompt, max_tokens > 0 and system prompt, split_prompt ends
\* with a list and raises nothing: range() of _split_large_line never gets a
\* step of 0 and the scan never reads past the lines; every iteration of the
\* while loop consumes a line or flushes a non-empty accumulator, so that
\* the scan measure, which is never below 0, strictly decreases with every
\* iteration and the loop is left after at most 2 * len(lines) of them; the
\* list returned is final.
C19_TerminatesWithProgress ==
    /\ [](sp_pc = "scan" => available_tokens * AvgCharsPerToken > 0)
    /\ [](sp_pc = "scan" => (i <= Len(lines) /\ ScanMeasure >= 0))
    /\ [][(sp_pc = "scan" /\ sp_pc' = "scan")
          => (IterationProgress /\ ScanMeasure' < ScanMeasure)]_vars
    /\ [][sp_pc = "scan" => sp_pc' \in {"scan", "done"}]_vars
    /\ [][sp_pc = "done" => UNCHANGED chunks]_vars

\* a scan over a section that exceeds the budget, with a line that alone
\* exceeds it, and over a line outside a section that exceeds it, has ended
C19_Witness ==
    /\ sp_pc = "done"
    /\ IsSplit
    /\ max_tokens > 0
    /\ Len(PromptLines) = 3
    /\ ~StartsWith(PromptLines[1], FileHeader)
    /\ count_tokens(PromptLines[1]) > available_tokens
    /\ StartsWith(PromptLines[2], FileHeader)
    /\ ~StartsWith(PromptLines[3], FileHeader)
    /\ count_tokens(PromptLines[3]) > available_tokens
    /\ i = Len(lines)
    /\ Len(chunks) >= 4

\* the number of attempts of call c that failed retryably so far
RetryableFailures(c) ==
    Cardinality({j \in 1..Len(outcomes[c]) : RetryableFailure(outcomes[c][j])})

\* the attempt of call c that ends in this step fails retryably
FailsRetryablyNow(c) ==
    /\ Len(outcomes'[c]) = Len(outcomes[c]) + 1
    /\ RetryableFailure(outcomes'[c][Len(outcomes'[c])])

\* C20: within one call the retry delay is slept once after every attempt
\* that fails retryably, the final one included: the sleeps of a call are as
\* many as its retryable failures, a sleep is begun in the very step in which
\* an attempt fails retryably and in no other, and a call that used up its
\* attempts has slept max_retries times and returns the last response or
\* raises the exhaustion error only out of that last sleep. No sleep comes
\* before the first attempt, after a non-retryable status or after a
\* non-retryable exception.
C20_SleepAfterEachRetryableFailure ==
    /\ [](\A c \in Calls : sleeps[c] = RetryableFailures(c))
    /\ [](\A c \in Calls : outcomes[c] = <<>> => sleeps[c] = 0)
    /\ [](\A c \in Calls : Exhausted(c) => sleeps[c] = max_retries)
    /\ [](\A c \in Calls :
            pc[c] = "sleeping" => RetryableFailure(outcomes[c][Len(outcomes[c])]))
    /\ [][\A c \in Calls :
            /\ FailsRetryablyNow(c) => (sleeps'[c] = sleeps[c] + 1 /\ pc'[c] = "sleeping")
            /\ sleeps'[c] # sleeps[c] => FailsRetryablyNow(c)
            /\ (pc[c] = "attempting" /\ ~FailsRetryablyNow(c))
               => (sleeps'[c] = sleeps[c] /\ pc'[c] # "sleeping")
            /\ (pc'[c] # pc[c] /\ pc'[c] \in {"returned", "raised"} /\ max_retries > 0
                  /\ RetryableFailure(outcomes'[c][Len(outcomes'[c])]))
               => (pc[c] = "sleeping" /\ Len(outcomes[c]) = max_retries)]_vars

\* a call with two attempts has slept after each, the final one included, and
\* then returned the last response; the other call, whose first attempt
\* returned a final status, has not slept
C20_Witness ==
    /\ max_retries = 2
    /\ Exhausted("c1")
    /\ result["c1"].kind = "return"
    /\ sleeps["c1"] = 2
    /\ pc["c2"] = "returned"
    /\ Len(outcomes["c2"]) = 1
    /\ sleeps["c2"] = 0

\* the top-level scan is at a line that is no header and that alone exceeds
\* available
AtOversizeLine ==
    /\ sp_pc = "scan"
    /\ i < Len(lines)
    /\ ~StartsWith(lines[i + 1], FileHeader)
    /\ count_tokens(lines[i + 1]) > available_tokens

\* C21: in the top-level scan, at a line that is no header and that alone
\* exceeds available, a pending accumulator is first flushed as a chunk of
\* its own while the scan stays at the line; with the accumulator empty the
\* line is consumed and what is added to the chunks are the slices of the
\* line and nothing else, each a chunk; the accumulator is empty afterwards,
\* so that no part of the line is carried into a later chunk and no earlier
\* line shares a chunk with a slice.
C21_OversizeLineEmittedAlone ==
    [][AtOversizeLine
       => \/ /\ current_chunk # <<>>
             /\ chunks' = Append(chunks, JoinLines(current_chunk))
             /\ current_chunk' = <<>>
             /\ current_tokens' = 0
             /\ i' = i
             /\ AtOversizeLine'
          \/ /\ current_chunk = <<>>
             /\ current_chunk' = <<>>
             /\ current_tokens' = current_tokens
             /\ i' = i + 1
             /\ Len(chunks') >= Len(chunks) + 1
             /\ SubSeq(chunks', 1, Len(chunks)) = chunks
             /\ IsPartition(SubSeq(chunks', Len(chunks) + 1, Len(chunks')),
                            lines[i + 1], available_tokens * AvgCharsPerToken)]_vars

\* the scan has ended for a prompt of three lines without header whose second
\* line alone exceeds available: the first line is a chunk, the slices of the
\* second line follow it, the third line is the last chunk
C21_Witness ==
    /\ sp_pc = "done"
    /\ IsSplit
    /\ Len(PromptLines) = 3
    /\ HeaderLines = {}
    /\ PromptLines[1] # <<>>
    /\ PromptLines[3] # <<>>
    /\ count_tokens(PromptLines[1]) <= available_tokens
    /\ count_tokens(PromptLines[2]) > available_tokens
    /\ count_tokens(PromptLines[3]) <= available_tokens
    /\ Len(chunks) >= 4
    /\ chunks[1] = PromptLines[1]
    /\ chunks[Len(chunks)] = PromptLines[3]
    /\ Concat(SubSeq(chunks, 2, Len(chunks) - 1)) = PromptLines[2]

\* C23: when a section that starts with a '# File:' header exceeds available
\* and is sub-split, no sub-chunk emitted for the section is the header line
\* alone: every one carries some of the section's content besides the header.
C23_Original ==
    [][SubSplitStep
       => \A n \in (ChunksBeforeSection + 1)..Len(chunks') :
             chunks'[n] # lines[i + 1]]_vars

\* call c has reached a terminal outcome: a response returned, an exception
\* propagated or the exhaustion error raised
Terminal(c) == pc[c] \in {"returned", "raised", "failed", "aborted"}

\* C22: for every sequence of underlying outcomes and every max_retries >= 0
\* a call invokes the underlying transport at most max_retries times, the
\* attempts of a call are numbered 1, 2, ... in strictly increasing order
\* and, provided each underlying attempt and each delay completes, a call
\* that was made reaches a terminal outcome and stays there.
C22_BoundedAttemptsAndTermination ==
    /\ [](\A c \in Calls : invocations[c] <= max_retries)
    /\ [](\A c \in Calls : pc[c] = "attempting" => attempt[c] + 1 = invocations[c])
    /\ [][\A c \in Calls :
            /\ invocations'[c] \in {invocations[c], invocations[c] + 1}
            /\ invocations'[c] = invocations[c] + 1
               => (pc'[c] = "attempting" /\ attempt'[c] + 1 = invocations'[c]
                   /\ (invocations[c] > 0 => attempt'[c] > attempt[c]))
            /\ Terminal(c) => (pc'[c] = pc[c] /\ result'[c] = result[c]
                               /\ invocations'[c] = invocations[c])]_vars
    /\ \A c \in Calls : (pc[c] # "idle") ~> Terminal(c)

\* both calls have used all their attempts, one ending with the last response
\* and the other with the exhaustion error
C22_Witness ==
    /\ max_retries = MaxRetriesBound
    /\ invocations["c1"] = max_retries
    /\ invocations["c2"] = max_retries
    /\ pc["c1"] = "returned"
    /\ pc["c2"] = "raised"
    /\ Exhausted("c1")
    /\ Exhausted("c2")

\* how often ask invoked method name
Invocations(name) == Cardinality({n \in 1..Len(invoked) : invoked[n] = name})

\* the first invocation of name, 0 when there is none
FirstInvocation(name) ==
    IF Invocations(name) = 0 THEN 0
    ELSE CHOOSE n \in 1..Len(invoked) :
            invoked[n] = name /\ \A m \in 1..(n - 1) : invoked[m] # name

\* what the first invocation of name did; "pending" while it is not over and
\* "none" when there is none
Answer(name) ==
    LET n == FirstInvocation(name) IN
    IF n = 0 THEN "none" ELSE IF n > Len(answers) THEN "pending" ELSE answers[n]

\* llm.chat was invoked and has returned
ChatReturned == Answer("llm.chat") = "ok"

\* llm.chat was invoked and has raised
ChatRaised == Answer("llm.chat") \in {"Exception", "CancelledError"}

\* llm.chat has raised an exception that is an instance of Exception
ChatRaisedException ==
    ChatRaised /\ "Exception" \in Bases(Answer("llm.chat"))

\* ask ended by raising the exception that llm.chat raised
PropagatesChatException ==
    ask_result.kind = "raise" /\ ask_result.value.callee = "llm.chat"

\* the order of the hooks: chat_start is emitted before llm.chat is invoked,
\* llm.chat is invoked at most once, chat_complete is emitted only after
\* llm.chat returned
HookOrder ==
    /\ Invocations("llm.chat") <= 1
    /\ Invocations("llm.chat") = 1
       => (Invocations("emit_chat_start") = 1
           /\ FirstInvocation("emit_chat_start") < FirstInvocation("llm.chat"))
    /\ Invocations("emit_chat_complete") >= 1
       => (ChatReturned /\ FirstInvocation("llm.chat") < FirstInvocation("emit_chat_complete"))

\* what is excluded once llm.chat raised: no chat_complete hook, no artifact
\* saved, no text returned
NothingAfterChatRaised ==
    /\ Invocations("emit_chat_complete") = 0
    /\ Invocations("artifacts.save_llm") = 0
    /\ ask_result.kind = "return" => ask_result.value = None

\* C24 as stated: chat_start before llm.chat, llm.chat at most once,
\* chat_complete only after llm.chat returned; and whenever llm.chat raises,
\* ask does not propagate the exception, emits chat_error once, emits no
\* chat_complete, saves no artifact and returns no text.
C24_Original ==
    /\ HookOrder
    /\ ChatRaised
       => /\ ~PropagatesChatException
          /\ Invocations("emit_chat_error") = 1
          /\ NothingAfterChatRaised

\* C24 as amended: the order of the hooks as stated; whenever llm.chat raises
\* an exception that is an instance of Exception, ask does not propagate it,
\* emits chat_error once, emits no chat_complete, saves no artifact and
\* returns no text: it returns None when the chat_error hook returns and
\* raises what that hook raises otherwise; whenever llm.chat raises an
\* exception that is no instance of Exception (the cancellation of the task),
\* ask propagates it and emits neither chat_error nor chat_complete and saves
\* no artifact.
C24_ChatFailureHandled ==
    /\ HookOrder
    /\ ChatRaisedException
       => /\ ~PropagatesChatException
          /\ Invocations("emit_chat_error") = 1
          /\ NothingAfterChatRaised
          /\ ask_pc \in {"await_chat_error", "returned", "raised"}
          /\ ask_pc = "returned" => ask_result = [kind |-> "return", value |-> None]
          /\ ask_pc = "raised" => ask_result.value.callee = "emit_chat_error"
    /\ (ChatRaised /\ ~ChatRaisedException)
       => /\ ask_pc = "raised"
          /\ PropagatesChatException
          /\ Invocations("emit_chat_error") = 0
          /\ NothingAfterChatRaised

\* llm.chat raised an exception, the chat_error hook was emitted and has
\* returned, and ask returned None after a warning about the prompt's size
C24_Witness ==
    /\ ask_pc = "returned"
    /\ ChatRaisedException
    /\ invoked = <<"emit_chat_start", "llm.chat", "emit_chat_error">>
    /\ ask_result = [kind |-> "return", value |-> None]
    /\ Len(ask_log) = 2

====
